---- MODULE Spec2Model ----
(***************************************************************************)
(* Storage layer of the finance tracker: the IStorage contract and its two *)
(* implementations, PostgresStorage (persistent) and InMemoryStorage       *)
(* (ephemeral).  One behaviour follows one storage instance: the backend   *)
(* is fixed at construction, every step is one call of one method (or a    *)
(* tick of the wall clock between two calls).                              *)
(***************************************************************************)
EXTENDS Integers, Sequences, FiniteSets

VARIABLES
    backend,          \* which class was instantiated: "memory" or "postgres"
    now,              \* the wall clock read by `new Date()`
    calls,            \* number of method calls made so far
    budget,           \* number of method calls the caller makes in all
    salaries,         \* InMemoryStorage.salaries
    expenses,         \* InMemoryStorage.expenses
    indianExpenses,   \* InMemoryStorage.indianExpenses
    salaryId,         \* InMemoryStorage.salaryId
    expenseId,        \* InMemoryStorage.expenseId
    indianExpenseId,  \* InMemoryStorage.indianExpenseId
    pgSalaries,       \* rows of the salaries relation, in heap order
    pgExpenses,       \* rows of the expenses relation, in heap order
    pgSalarySeq,      \* next identifier the store assigns to a salary row
    pgExpenseSeq,     \* next identifier the store assigns to an expense row
    issued,           \* history: identifiers returned by add/create, per category
    last,             \* the last call: method, arguments and outcome
    frames,           \* the calls issued without awaiting one another
    atomic            \* history: the store as those calls leave it run one by one

vars == <<backend, now, calls, budget, salaries, expenses, indianExpenses, salaryId,
          expenseId, indianExpenseId, pgSalaries, pgExpenses, pgSalarySeq,
          pgExpenseSeq, issued, last, frames, atomic>>

memVars == <<salaries, expenses, indianExpenses, salaryId, expenseId, indianExpenseId>>
pgVars == <<pgSalaries, pgExpenses, pgSalarySeq, pgExpenseSeq>>

\* Bounds of the exploration.
MaxCalls == 3
MaxTime == 1

(***************************************************************************)
(* JavaScript values.  Every value is a record of the same shape so that   *)
(* any two values can be compared: t is the kind, n the numeric payload    *)
(* (a number, or a date's timestamp), s the characters of a string.        *)
(***************************************************************************)
Undefined == [t |-> "undefined", n |-> 0, s |-> <<>>]
Num(k) == [t |-> "number", n |-> k, s |-> <<>>]
NaN == [t |-> "NaN", n |-> 0, s |-> <<>>]
Str(cs) == [t |-> "string", n |-> 0, s |-> cs]
DateV(k) == [t |-> "date", n |-> k, s |-> <<>>]
InvalidDate == [t |-> "invalid date", n |-> 0, s |-> <<>>]
\* a column holding no value
SqlNull == [t |-> "null", n |-> 0, s |-> <<>>]

Digits == {"0", "1", "2", "3", "4", "5", "6", "7", "8", "9"}

DigitVal(c) ==
    CASE c = "0" -> 0 [] c = "1" -> 1 [] c = "2" -> 2 [] c = "3" -> 3
      [] c = "4" -> 4 [] c = "5" -> 5 [] c = "6" -> 6 [] c = "7" -> 7
      [] c = "8" -> 8 [] c = "9" -> 9

AllDigits(cs) == \A i \in 1..Len(cs) : cs[i] \in Digits

RECURSIVE Decimal(_)
Decimal(cs) ==
    IF cs = <<>> THEN 0
    ELSE 10 * Decimal(SubSeq(cs, 1, Len(cs) - 1)) + DigitVal(cs[Len(cs)])

\* Number("...") : the empty string is 0, a digit string its value, else NaN
StringToNumber(cs) ==
    IF cs = <<>> THEN Num(0)
    ELSE IF AllDigits(cs) THEN Num(Decimal(cs))
    ELSE NaN

\* Number(v)
ToNumber(v) ==
    CASE v.t = "undefined" -> NaN
      [] v.t = "number" -> v
      [] v.t = "NaN" -> NaN
      [] v.t = "string" -> StringToNumber(v.s)
      [] v.t = "date" -> Num(v.n)
      [] v.t = "invalid date" -> NaN
      [] v.t = "object" -> NaN

\* a > b : false as soon as either side converts to NaN
GreaterThan(a, b) ==
    LET x == ToNumber(a)
        y == ToNumber(b)
    IN  x.t = "number" /\ y.t = "number" /\ x.n > y.n

\* ToBoolean(v), as used by `v || d` and `v ? a : b`
Truthy(v) ==
    CASE v.t = "undefined" -> FALSE
      [] v.t = "number" -> v.n /= 0
      [] v.t = "NaN" -> FALSE
      [] v.t = "string" -> v.s /= <<>>
      [] v.t = "date" -> TRUE
      [] v.t = "invalid date" -> TRUE

\* v || d
Or(v, d) == IF Truthy(v) THEN v ELSE d

\* Date strings are written here as digit strings naming the tick they denote;
\* any other string does not parse.
DateParse(cs) ==
    IF cs /= <<>> /\ AllDigits(cs) THEN DateV(Decimal(cs)) ELSE InvalidDate

\* new Date(v)
NewDate(v) ==
    CASE v.t = "undefined" -> InvalidDate
      [] v.t = "number" -> DateV(v.n)
      [] v.t = "NaN" -> InvalidDate
      [] v.t = "string" -> DateParse(v.s)
      [] v.t = "date" -> DateV(v.n)
      [] v.t = "invalid date" -> InvalidDate

\* new Date().getFullYear(): one tick of the model clock is a year
getFullYear(t) == 2024 + t

\* data.k : undefined when the object has no such property
Get(data, k) == IF k \in DOMAIN data THEN data[k] ELSE Undefined

\* { ...a, ...b }
Spread(a, b) ==
    [k \in (DOMAIN a) \cup (DOMAIN b) |-> IF k \in DOMAIN b THEN b[k] ELSE a[k]]

\* { ...a, k: v }
With(a, k, v) == [x \in (DOMAIN a) \cup {k} |-> IF x = k THEN v ELSE a[x]]

EmptyObject == [k \in {} |-> Undefined]

\* Array.prototype.findIndex(e => e.id === id): 0 stands for -1
FindIndex(arr, id) ==
    IF \E i \in 1..Len(arr) : arr[i].id = Num(id)
    THEN CHOOSE i \in 1..Len(arr) :
            /\ arr[i].id = Num(id)
            /\ \A j \in 1..(i - 1) : arr[j].id /= Num(id)
    ELSE 0

\* splice(index) without the delete count: drops the rest of the array
Splice_ToEnd(arr, index) == SubSeq(arr, 1, index - 1)

\* Array.prototype.splice(index, 1)
Splice(arr, index) ==
    [i \in 1..(Len(arr) - 1) |-> IF i < index THEN arr[i] ELSE arr[i + 1]]

\* arr[index] = v
SetAt(arr, index, v) == [arr EXCEPT ![index] = v]


(***************************************************************************)
(* Arguments of the calls.  The property names are those of the parameter  *)
(* types (Omit<Salary,'id'|'createdAt'>, InsertExpense and their Partial   *)
(* forms); any subset of them may be missing, and amount and date may      *)
(* arrive as text, as they do from a request body.  An update payload may  *)
(* also be one of type UpdateSalary / UpdateExpense, which carries the id  *)
(* next to the fields: such an object is assignable to the Partial type.   *)
(***************************************************************************)
\* identifiers passed to update and delete: those that can exist, and one that cannot
IdArgs == 1..(MaxCalls - 1)

SalaryInputs ==
    { [amount |-> Num(5), month |-> Str(<<"J">>), year |-> Num(2023),
       notes |-> Str(<<"n">>), date |-> DateV(1)],
      [amount |-> Str(<<"7">>), month |-> Str(<<"J">>), year |-> Num(2023)],
      [month |-> Str(<<"J">>), date |-> Str(<<"1">>)],
      EmptyObject }

SalaryUpdates ==
    { [amount |-> Str(<<"1", "2">>)],
      [notes |-> Str(<<"m">>)],
      [month |-> Str(<<"F">>), date |-> Str(<<"2">>)],
      [amount |-> Num(0), year |-> Num(2025)],
      [id |-> Num(2), notes |-> Str(<<"m">>)] }

ExpenseInputs ==
    { [amount |-> Str(<<"7">>), category |-> Str(<<"f">>),
       description |-> Str(<<"l">>), date |-> Str(<<"1">>)],
      [amount |-> Num(5), category |-> Str(<<"f">>), date |-> DateV(2)],
      [category |-> Str(<<"f">>), description |-> Str(<<"l">>)] }

ExpenseUpdates ==
    { [amount |-> Str(<<"1", "2">>)],
      [description |-> Str(<<"m">>)],
      [category |-> Str(<<"g">>), date |-> Str(<<"2">>)],
      [id |-> Num(2), description |-> Str(<<"m">>)] }

(***************************************************************************)
(* The outcome of a call, as its caller sees it.                           *)
(*   kind: "record" | "null" | "boolean" | "list" | "throw" | "none"       *)
(***************************************************************************)
NoCall ==
    [op |-> "none", id |-> 0, data |-> EmptyObject, kind |-> "none",
     b |-> FALSE, recs |-> <<>>, err |-> ""]
ReturnRecord(op, id, data, rec) ==
    [op |-> op, id |-> id, data |-> data, kind |-> "record",
     b |-> FALSE, recs |-> <<rec>>, err |-> ""]
ReturnNull(op, id, data) ==
    [op |-> op, id |-> id, data |-> data, kind |-> "null",
     b |-> FALSE, recs |-> <<>>, err |-> ""]
ReturnBoolean(op, id, b) ==
    [op |-> op, id |-> id, data |-> EmptyObject, kind |-> "boolean",
     b |-> b, recs |-> <<>>, err |-> ""]
ReturnList(op, recs) ==
    [op |-> op, id |-> 0, data |-> EmptyObject, kind |-> "list",
     b |-> FALSE, recs |-> recs, err |-> ""]
Throw(op, id, data, err) ==
    [op |-> op, id |-> id, data |-> data, kind |-> "throw",
     b |-> FALSE, recs |-> <<>>, err |-> err]

\* the collections and counters of salaries and expenses of a new store
EmptyStore ==
    [salary |-> [arr |-> <<>>, nextId |-> 1], expense |-> [arr |-> <<>>, nextId |-> 1]]

(***************************************************************************)
(* InMemoryStorage                                                         *)
(***************************************************************************)
\* the object literal of createSalary / addSalary
NewSalary(id, data, t) ==
    [id |-> Num(id),
     amount |-> ToNumber(Or(Get(data, "amount"), Num(0))),
     month |-> Or(Get(data, "month"), Str(<<>>)),
     year |-> Or(Get(data, "year"), Num(getFullYear(t))),
     notes |-> Or(Get(data, "notes"), Str(<<>>)),
     date |-> IF Truthy(Get(data, "date")) THEN NewDate(Get(data, "date")) ELSE DateV(t),
     createdAt |-> DateV(t)]

\* the object literal of createExpense / createIndianExpense
NewExpense(id, data, t) ==
    [id |-> Num(id),
     amount |-> ToNumber(Get(data, "amount")),
     category |-> Get(data, "category"),
     description |-> Or(Get(data, "description"), Str(<<>>)),
     date |-> NewDate(Get(data, "date")),
     createdAt |-> DateV(t)]

\* the merge with amount coerced whether or not the data carries it
Updated_AlwaysCoercesAmount(rec, data) ==
    With(With(Spread(rec, data), "amount", ToNumber(Get(data, "amount"))),
         "date", IF Truthy(Get(data, "date"))
                 THEN NewDate(Get(data, "date")) ELSE rec.date)

\* the object literal of updateSalary / updateExpense
Updated(rec, data) ==
    With(With(Spread(rec, data),
              "amount", IF Get(data, "amount") /= Undefined
                        THEN ToNumber(Get(data, "amount")) ELSE rec.amount),
         "date", IF Truthy(Get(data, "date"))
                 THEN NewDate(Get(data, "date")) ELSE rec.date)

MemCall == backend = "memory" /\ calls < budget /\ calls' = calls + 1
MemFrame == UNCHANGED <<backend, now, budget, pgVars, frames, atomic>>

InMemoryStorage_getSalaries ==
    /\ MemCall /\ MemFrame
    /\ last' = ReturnList("getSalaries", salaries)
    /\ UNCHANGED <<memVars, issued>>

\* the id taken from the array's length instead of the counter
PushSalary_IdFromLength(op, data) ==
    LET salary == NewSalary(Len(salaries) + 1, data, now) IN
    /\ salaryId' = salaryId + 1
    /\ salaries' = Append(salaries, salary)
    /\ issued' = [issued EXCEPT !.salary = @ \cup {salary.id.n}]
    /\ last' = ReturnRecord(op, 0, data, salary)
    /\ UNCHANGED <<expenses, indianExpenses, expenseId, indianExpenseId>>

\* this.salaryId++ ; this.salaries.push(salary) ; return salary
PushSalary(op, data) ==
    LET salary == NewSalary(salaryId, data, now) IN
    /\ salaryId' = salaryId + 1
    /\ salaries' = Append(salaries, salary)
    /\ issued' = [issued EXCEPT !.salary = @ \cup {salary.id.n}]
    /\ last' = ReturnRecord(op, 0, data, salary)
    /\ UNCHANGED <<expenses, indianExpenses, expenseId, indianExpenseId>>

InMemoryStorage_createSalary(data) ==
    /\ MemCall /\ MemFrame
    /\ PushSalary("createSalary", data)

InMemoryStorage_addSalary(data) ==
    /\ MemCall /\ MemFrame
    /\ PushSalary("addSalary", data)

InMemoryStorage_updateSalary(id, data) ==
    LET index == FindIndex(salaries, id) IN
    /\ MemCall /\ MemFrame
    /\ IF index = 0
       THEN /\ last' = ReturnNull("updateSalary", id, data)
            /\ UNCHANGED salaries
       ELSE LET updatedSalary == Updated(salaries[index], data) IN
            /\ salaries' = SetAt(salaries, index, updatedSalary)
            /\ last' = ReturnRecord("updateSalary", id, data, updatedSalary)
    /\ UNCHANGED <<expenses, indianExpenses, salaryId, expenseId, indianExpenseId, issued>>

\* deleteSalary without the `index === -1` return: splice(-1, 1) drops the last record
InMemoryStorage_deleteSalary_NoGuard(id) ==
    LET index == FindIndex(salaries, id) IN
    /\ MemCall /\ MemFrame
    /\ salaries' = IF index = 0
                   THEN SubSeq(salaries, 1, Len(salaries) - 1)
                   ELSE Splice(salaries, index)
    /\ last' = ReturnBoolean("deleteSalary", id, TRUE)
    /\ UNCHANGED <<expenses, indianExpenses, salaryId, expenseId, indianExpenseId, issued>>

InMemoryStorage_deleteSalary(id) ==
    LET index == FindIndex(salaries, id) IN
    /\ MemCall /\ MemFrame
    /\ IF index = 0
       THEN /\ last' = ReturnBoolean("deleteSalary", id, FALSE)
            /\ UNCHANGED salaries
       ELSE /\ salaries' = Splice(salaries, index)
            /\ last' = ReturnBoolean("deleteSalary", id, TRUE)
    /\ UNCHANGED <<expenses, indianExpenses, salaryId, expenseId, indianExpenseId, issued>>

InMemoryStorage_getExpenses ==
    /\ MemCall /\ MemFrame
    /\ last' = ReturnList("getExpenses", expenses)
    /\ UNCHANGED <<memVars, issued>>

InMemoryStorage_getIndianExpenses ==
    /\ MemCall /\ MemFrame
    /\ last' = ReturnList("getIndianExpenses", indianExpenses)
    /\ UNCHANGED <<memVars, issued>>

\* this.expenseId++ ; this.expenses.push(expense) ; return expense
PushExpense(op, data) ==
    LET expense == NewExpense(expenseId, data, now) IN
    /\ expenseId' = expenseId + 1
    /\ expenses' = Append(expenses, expense)
    /\ issued' = [issued EXCEPT !.expense = @ \cup {expense.id.n}]
    /\ last' = ReturnRecord(op, 0, data, expense)
    /\ UNCHANGED <<salaries, indianExpenses, salaryId, indianExpenseId>>

InMemoryStorage_createExpense(data) ==
    /\ MemCall /\ MemFrame
    /\ PushExpense("createExpense", data)

\* return this.createExpense(data)
InMemoryStorage_addExpense(data) ==
    /\ MemCall /\ MemFrame
    /\ PushExpense("addExpense", data)

\* updateExpense that stores the data as a new record when the id is not found
InMemoryStorage_updateExpense_Upsert(id, data) ==
    LET index == FindIndex(expenses, id) IN
    /\ MemCall /\ MemFrame
    /\ IF index = 0
       THEN LET created == Updated([id |-> Num(id), amount |-> Undefined,
                                    date |-> Undefined], data) IN
            /\ expenses' = Append(expenses, created)
            /\ last' = ReturnRecord("updateExpense", id, data, created)
       ELSE LET updatedExpense == Updated(expenses[index], data) IN
            /\ expenses' = SetAt(expenses, index, updatedExpense)
            /\ last' = ReturnRecord("updateExpense", id, data, updatedExpense)
    /\ UNCHANGED <<salaries, indianExpenses, salaryId, expenseId, indianExpenseId, issued>>

InMemoryStorage_updateExpense(id, data) ==
    LET index == FindIndex(expenses, id) IN
    /\ MemCall /\ MemFrame
    /\ IF index = 0
       THEN /\ last' = ReturnNull("updateExpense", id, data)
            /\ UNCHANGED expenses
       ELSE LET updatedExpense == Updated(expenses[index], data) IN
            /\ expenses' = SetAt(expenses, index, updatedExpense)
            /\ last' = ReturnRecord("updateExpense", id, data, updatedExpense)
    /\ UNCHANGED <<salaries, indianExpenses, salaryId, expenseId, indianExpenseId, issued>>

InMemoryStorage_deleteExpense(id) ==
    LET index == FindIndex(expenses, id) IN
    /\ MemCall /\ MemFrame
    /\ IF index = 0
       THEN /\ last' = ReturnBoolean("deleteExpense", id, FALSE)
            /\ UNCHANGED expenses
       ELSE /\ expenses' = Splice(expenses, index)
            /\ last' = ReturnBoolean("deleteExpense", id, TRUE)
    /\ UNCHANGED <<salaries, indianExpenses, salaryId, expenseId, indianExpenseId, issued>>

\* createIndianExpense drawing its id from the counter of the expenses
InMemoryStorage_createIndianExpense_SharedCounter(data) ==
    LET expense == NewExpense(expenseId, data, now) IN
    /\ MemCall /\ MemFrame
    /\ expenseId' = expenseId + 1
    /\ indianExpenses' = Append(indianExpenses, expense)
    /\ issued' = [issued EXCEPT !.indian = @ \cup {expense.id.n}]
    /\ last' = ReturnRecord("createIndianExpense", 0, data, expense)
    /\ UNCHANGED <<salaries, expenses, salaryId, indianExpenseId>>

InMemoryStorage_createIndianExpense(data) ==
    LET expense == NewExpense(indianExpenseId, data, now) IN
    /\ MemCall /\ MemFrame
    /\ indianExpenseId' = indianExpenseId + 1
    /\ indianExpenses' = Append(indianExpenses, expense)
    /\ issued' = [issued EXCEPT !.indian = @ \cup {expense.id.n}]
    /\ last' = ReturnRecord("createIndianExpense", 0, data, expense)
    /\ UNCHANGED <<salaries, expenses, salaryId, expenseId>>

InMemoryStorage_deleteIndianExpense(id) ==
    LET index == FindIndex(indianExpenses, id) IN
    /\ MemCall /\ MemFrame
    /\ IF index = 0
       THEN /\ last' = ReturnBoolean("deleteIndianExpense", id, FALSE)
            /\ UNCHANGED indianExpenses
       ELSE /\ indianExpenses' = Splice(indianExpenses, index)
            /\ last' = ReturnBoolean("deleteIndianExpense", id, TRUE)
    /\ UNCHANGED <<salaries, expenses, salaryId, expenseId, indianExpenseId, issued>>


(***************************************************************************)
(* PostgresStorage.  The relations and the query builder are collaborators *)
(* of this class: a statement is one atomic step of the store.             *)
(***************************************************************************)
SalaryColumns == {"id", "amount", "month", "year", "notes", "date", "createdAt"}
ExpenseColumns == {"id", "amount", "category", "description", "date", "createdAt"}

PgSalaryInputs ==
    { [amount |-> Num(5), month |-> Str(<<"J">>), year |-> Num(2023),
       notes |-> Str(<<"n">>), date |-> DateV(1)],
      [amount |-> Str(<<"7">>), month |-> Str(<<"J">>), year |-> Num(2023),
       notes |-> Str(<<>>), date |-> DateV(0)] }

PgSalaryUpdates ==
    { [amount |-> Str(<<"1", "2">>)],
      [notes |-> Str(<<"m">>)],
      [amount |-> Num(9), month |-> Str(<<"F">>)] }

PgExpenseInputs ==
    { [amount |-> Str(<<"7">>), category |-> Str(<<"f">>),
       description |-> Str(<<"l">>), date |-> DateV(0)],
      [amount |-> Num(5), category |-> Str(<<"f">>),
       description |-> Str(<<"l">>), date |-> DateV(2)],
      [amount |-> Num(5), category |-> Str(<<"f">>), description |-> Str(<<>>)] }

PgExpenseUpdates ==
    { [amount |-> Str(<<"1", "2">>)],
      [description |-> Str(<<"m">>)],
      [amount |-> Num(9), date |-> DateV(0)] }

\* a query builder that writes NULL for a key whose value is undefined
Defined_KeepsUndefined(values) ==
    [k \in DOMAIN values |-> IF values[k] = Undefined THEN SqlNull ELSE values[k]]

\* the query builder leaves out of a statement every key whose value is undefined
Defined(values) == [k \in {x \in DOMAIN values : values[x] /= Undefined} |-> values[k]]

\* INSERT ... RETURNING: the store assigns the identifier; a column the
\* statement does not name holds no value
InsertRow(columns, id, values) ==
    [c \in columns |->
        IF c = "id" THEN Num(id)
        ELSE IF c \in DOMAIN Defined(values) THEN values[c]
        ELSE SqlNull]

\* the UPDATE without its WHERE clause: every row is set
UpdateRows_NoWhere(rows, id, set) ==
    [i \in 1..Len(rows) |-> Spread(rows[i], Defined(set))]

\* UPDATE ... SET set WHERE id = id: the rows after the statement
UpdateRows(rows, id, set) ==
    [i \in 1..Len(rows) |->
        IF rows[i].id = Num(id) THEN Spread(rows[i], Defined(set)) ELSE rows[i]]

\* ... RETURNING: the rows the statement changed
ReturningRows(rows, id, set) ==
    SelectSeq(UpdateRows(rows, id, set), LAMBDA r : r.id = Num(id))

\* DELETE ... WHERE id = id: the rows after the statement
DeleteRows(rows, id) == SelectSeq(rows, LAMBDA r : r.id /= Num(id))

\* what awaiting a DELETE without RETURNING resolves to: the driver's
\* result object, whose rowCount property holds the affected-row count
QueryResult(rowCount) == [t |-> "object", n |-> rowCount, s |-> <<>>]

Bijections(n) ==
    {f \in [1..n -> 1..n] : \A i, j \in 1..n : f[i] = f[j] => i = j}

\* the SELECT without ORDER BY: the rows as the heap holds them
OrderBy_HeapOrder(rows) == {rows}

\* SELECT ... ORDER BY createdAt: every ordering of the rows that ascends in
\* createdAt (rows of equal createdAt come in any order)
OrderByCreatedAt(rows) ==
    { [i \in 1..Len(rows) |-> rows[f[i]]] : f \in
        {g \in Bijections(Len(rows)) :
            \A i, j \in 1..Len(rows) :
                i < j => rows[g[i]].createdAt.n <= rows[g[j]].createdAt.n} }

PgCall == backend = "postgres" /\ calls < budget /\ calls' = calls + 1
PgFrame == UNCHANGED <<backend, now, budget, memVars, issued, frames, atomic>>

PostgresStorage_getSalaries ==
    /\ PgCall /\ PgFrame
    /\ \E rows \in OrderByCreatedAt(pgSalaries) :
          last' = ReturnList("getSalaries", rows)
    /\ UNCHANGED pgVars

\* values of the INSERT of addSalary
SalaryInsertValues(insertSalary, t) ==
    With(With(insertSalary, "amount", ToNumber(Get(insertSalary, "amount"))),
         "createdAt", DateV(t))

PostgresStorage_addSalary(insertSalary) ==
    LET salary == InsertRow(SalaryColumns, pgSalarySeq,
                            SalaryInsertValues(insertSalary, now)) IN
    /\ PgCall /\ PgFrame
    /\ pgSalaries' = Append(pgSalaries, salary)
    /\ pgSalarySeq' = pgSalarySeq + 1
    /\ last' = ReturnRecord("addSalary", 0, insertSalary, salary)
    /\ UNCHANGED <<pgExpenses, pgExpenseSeq>>

\* SET clause of updateSalary
SalarySet(values) == With(values, "amount", ToNumber(Get(values, "amount")))

\* updateSalary({ id, ...values })
PostgresStorage_updateSalary(id, values) ==
    LET returned == ReturningRows(pgSalaries, id, SalarySet(values)) IN
    /\ PgCall /\ PgFrame
    /\ pgSalaries' = UpdateRows(pgSalaries, id, SalarySet(values))
    /\ IF returned = <<>>
       THEN last' = Throw("updateSalary", id, values, "Salary with id ${id} not found")
       ELSE last' = ReturnRecord("updateSalary", id, values, returned[1])
    /\ UNCHANGED <<pgExpenses, pgSalarySeq, pgExpenseSeq>>

PostgresStorage_deleteSalary(id) ==
    LET deleteCount == QueryResult(Len(pgSalaries) - Len(DeleteRows(pgSalaries, id))) IN
    /\ PgCall /\ PgFrame
    /\ pgSalaries' = DeleteRows(pgSalaries, id)
    /\ last' = ReturnBoolean("deleteSalary", id, GreaterThan(deleteCount, Num(0)))
    /\ UNCHANGED <<pgExpenses, pgSalarySeq, pgExpenseSeq>>

PostgresStorage_getExpenses ==
    /\ PgCall /\ PgFrame
    /\ \E rows \in OrderByCreatedAt(pgExpenses) :
          last' = ReturnList("getExpenses", rows)
    /\ UNCHANGED pgVars

\* values of the INSERT of addExpense
ExpenseInsertValues(insertExpense, t) ==
    With(With(insertExpense, "amount", ToNumber(Get(insertExpense, "amount"))),
         "createdAt", IF Truthy(Get(insertExpense, "date"))
                      THEN NewDate(Get(insertExpense, "date")) ELSE DateV(t))

PostgresStorage_addExpense(insertExpense) ==
    LET expense == InsertRow(ExpenseColumns, pgExpenseSeq,
                             ExpenseInsertValues(insertExpense, now)) IN
    /\ PgCall /\ PgFrame
    /\ pgExpenses' = Append(pgExpenses, expense)
    /\ pgExpenseSeq' = pgExpenseSeq + 1
    /\ last' = ReturnRecord("addExpense", 0, insertExpense, expense)
    /\ UNCHANGED <<pgSalaries, pgSalarySeq>>

\* SET clause of updateExpense
ExpenseSet(values) ==
    With(With(values, "amount", ToNumber(Get(values, "amount"))),
         "createdAt", IF Truthy(Get(values, "date"))
                      THEN NewDate(Get(values, "date")) ELSE Undefined)

\* updateExpense({ id, ...values })
PostgresStorage_updateExpense(id, values) ==
    LET returned == ReturningRows(pgExpenses, id, ExpenseSet(values)) IN
    /\ PgCall /\ PgFrame
    /\ pgExpenses' = UpdateRows(pgExpenses, id, ExpenseSet(values))
    /\ IF returned = <<>>
       THEN last' = Throw("updateExpense", id, values, "Expense with id ${id} not found")
       ELSE last' = ReturnRecord("updateExpense", id, values, returned[1])
    /\ UNCHANGED <<pgSalaries, pgSalarySeq, pgExpenseSeq>>

PostgresStorage_deleteExpense(id) ==
    LET deleteCount == QueryResult(Len(pgExpenses) - Len(DeleteRows(pgExpenses, id))) IN
    /\ PgCall /\ PgFrame
    /\ pgExpenses' = DeleteRows(pgExpenses, id)
    /\ last' = ReturnBoolean("deleteExpense", id, GreaterThan(deleteCount, Num(0)))
    /\ UNCHANGED <<pgSalaries, pgSalarySeq, pgExpenseSeq>>

PostgresStorage_getIndianExpenses ==
    /\ PgCall /\ PgFrame
    /\ last' = Throw("getIndianExpenses", 0, EmptyObject, "Method not implemented.")
    /\ UNCHANGED pgVars

\* createIndianExpense written like addExpense, into the expenses relation
PostgresStorage_createIndianExpense_Inserts(expense) ==
    LET row == InsertRow(ExpenseColumns, pgExpenseSeq,
                         ExpenseInsertValues(expense, now)) IN
    /\ PgCall /\ PgFrame
    /\ pgExpenses' = Append(pgExpenses, row)
    /\ pgExpenseSeq' = pgExpenseSeq + 1
    /\ last' = ReturnRecord("createIndianExpense", 0, expense, row)
    /\ UNCHANGED <<pgSalaries, pgSalarySeq>>

PostgresStorage_createIndianExpense(expense) ==
    /\ PgCall /\ PgFrame
    /\ last' = Throw("createIndianExpense", 0, expense, "Method not implemented.")
    /\ UNCHANGED pgVars

PostgresStorage_deleteIndianExpense(id) ==
    /\ PgCall /\ PgFrame
    /\ last' = Throw("deleteIndianExpense", id, EmptyObject, "Method not implemented.")
    /\ UNCHANGED pgVars

(***************************************************************************)
(* The system                                                              *)
(***************************************************************************)
\* time passes between two calls; the clock does not run backwards
Tick ==
    /\ now < MaxTime
    /\ now' = now + 1
    /\ UNCHANGED <<backend, calls, budget, memVars, pgVars, issued, last, frames, atomic>>

\* the state of a store that was just constructed, before any call
Constructed ==
    /\ now = 0
    /\ calls = 0
    /\ salaries = <<>>
    /\ expenses = <<>>
    /\ indianExpenses = <<>>
    /\ salaryId = 1
    /\ expenseId = 1
    /\ indianExpenseId = 1
    /\ pgSalaries = <<>>
    /\ pgExpenses = <<>>
    /\ pgSalarySeq = 1
    /\ pgExpenseSeq = 1
    /\ issued = [salary |-> {}, expense |-> {}, indian |-> {}]
    /\ last = NoCall
    /\ frames = <<>>
    /\ atomic = EmptyStore

Init ==
    /\ backend \in {"memory", "postgres"}
    /\ budget = MaxCalls
    /\ Constructed

Next ==
    \/ Tick
    \/ InMemoryStorage_getSalaries
    \/ \E data \in SalaryInputs : InMemoryStorage_createSalary(data)
    \/ \E data \in SalaryInputs : InMemoryStorage_addSalary(data)
    \/ \E id \in IdArgs, data \in SalaryUpdates : InMemoryStorage_updateSalary(id, data)
    \/ \E id \in IdArgs : InMemoryStorage_deleteSalary(id)
    \/ InMemoryStorage_getExpenses
    \/ InMemoryStorage_getIndianExpenses
    \/ \E data \in ExpenseInputs : InMemoryStorage_createExpense(data)
    \/ \E data \in ExpenseInputs : InMemoryStorage_addExpense(data)
    \/ \E id \in IdArgs, data \in ExpenseUpdates : InMemoryStorage_updateExpense(id, data)
    \/ \E id \in IdArgs : InMemoryStorage_deleteExpense(id)
    \/ \E data \in ExpenseInputs : InMemoryStorage_createIndianExpense(data)
    \/ \E id \in IdArgs : InMemoryStorage_deleteIndianExpense(id)
    \/ PostgresStorage_getSalaries
    \/ \E data \in PgSalaryInputs : PostgresStorage_addSalary(data)
    \/ \E id \in IdArgs, values \in PgSalaryUpdates : PostgresStorage_updateSalary(id, values)
    \/ \E id \in IdArgs : PostgresStorage_deleteSalary(id)
    \/ PostgresStorage_getExpenses
    \/ \E data \in PgExpenseInputs : PostgresStorage_addExpense(data)
    \/ \E id \in IdArgs, values \in PgExpenseUpdates : PostgresStorage_updateExpense(id, values)
    \/ \E id \in IdArgs : PostgresStorage_deleteExpense(id)
    \/ PostgresStorage_getIndianExpenses
    \/ \E data \in PgExpenseInputs : PostgresStorage_createIndianExpense(data)
    \/ \E id \in IdArgs : PostgresStorage_deleteIndianExpense(id)

Spec == Init /\ [][Next]_vars

(***************************************************************************)
(* A caller that uses only the salary methods of the ephemeral backend,    *)
(* and makes one call more than the callers of Spec do.                    *)
(***************************************************************************)
MaxSalaryCalls == MaxCalls + 1

InitSalaries ==
    /\ backend = "memory"
    /\ budget = MaxSalaryCalls
    /\ Constructed

NextSalaries ==
    \/ Tick
    \/ InMemoryStorage_getSalaries
    \/ \E data \in SalaryInputs : InMemoryStorage_createSalary(data)
    \/ \E data \in SalaryInputs : InMemoryStorage_addSalary(data)
    \/ \E id \in IdArgs, data \in SalaryUpdates : InMemoryStorage_updateSalary(id, data)
    \/ \E id \in IdArgs : InMemoryStorage_deleteSalary(id)

SpecSalaries == InitSalaries /\ [][NextSalaries]_vars


(***************************************************************************)
(* InMemoryStorage under calls issued concurrently.  Every method is an    *)
(* async function: the call runs the body up to its first await and hands  *)
(* back a promise; the rest of the body, and the caller's continuation on  *)
(* the settled promise, run later as microtasks, one at a time.  A frame is *)
(* one such call: c the category, op the method, pc where it stands        *)
(* ("write": suspended between scan and write, "settled": promise settled, *)
(* "done": the caller has the result), index what findIndex returned,      *)
(* valid whether that index was still the record's when the write ran,     *)
(* out the result and want the result of the same call in `atomic`.        *)
(***************************************************************************)
Pending == [kind |-> "pending", b |-> FALSE, recs |-> <<>>]
Record(rec) == [kind |-> "record", b |-> FALSE, recs |-> <<rec>>]
Null == [kind |-> "null", b |-> FALSE, recs |-> <<>>]
Boolean(b) == [kind |-> "boolean", b |-> b, recs |-> <<>>]

\* deleteSalary / deleteExpense with an await between findIndex and splice
AwaitsBeforeWrite_Delete(op) == op = "delete"

\* whether the body of the method awaits between its findIndex and its write:
\* no body of InMemoryStorage holds an await
AwaitsBeforeWrite(op) == FALSE

Coll(c) == IF c = "salary" THEN salaries ELSE expenses
NextId(c) == IF c = "salary" THEN salaryId ELSE expenseId
New(c, id, data, t) ==
    IF c = "salary" THEN NewSalary(id, data, t) ELSE NewExpense(id, data, t)
\* arguments of the concurrent calls: one of the inputs above per method,
\* and for updateSalary also the payload that carries an id
AddInputs(c) ==
    IF c = "salary"
    THEN { [amount |-> Str(<<"7">>), month |-> Str(<<"J">>), year |-> Num(2023)] }
    ELSE { [amount |-> Str(<<"7">>), category |-> Str(<<"f">>),
            description |-> Str(<<"l">>), date |-> Str(<<"1">>)] }
UpdateInputs(c) ==
    IF c = "salary"
    THEN { [amount |-> Str(<<"1", "2">>)], [id |-> Num(2), notes |-> Str(<<"m">>)] }
    ELSE { [amount |-> Str(<<"1", "2">>)] }

\* the collection after the write of update (arr[index] = merged) or of
\* delete (splice(index, 1), which removes nothing past the end)
Written(arr, op, index, data) ==
    IF op = "update" THEN SetAt(arr, index, Updated(arr[index], data))
    ELSE IF index > Len(arr) THEN arr
    ELSE Splice(arr, index)
\* what the method returns after that write
WrittenOut(arr, op, index, data) ==
    IF op = "update" THEN Record(Updated(arr[index], data)) ELSE Boolean(TRUE)

\* the calls run one by one, in the order in which they were issued
SerialAdd(st, c, data, t) ==
    LET rec == New(c, st[c].nextId, data, t) IN
    [store |-> [st EXCEPT ![c] = [arr |-> Append(@.arr, rec), nextId |-> @.nextId + 1]],
     out |-> Record(rec)]
SerialWrite(st, c, op, id, data) ==
    LET index == FindIndex(st[c].arr, id) IN
    IF index = 0
    THEN [store |-> st, out |-> IF op = "update" THEN Null ELSE Boolean(FALSE)]
    ELSE [store |-> [st EXCEPT ![c].arr = Written(@, op, index, data)],
          out |-> WrittenOut(st[c].arr, op, index, data)]

ConcurrentFrame ==
    UNCHANGED <<backend, now, budget, pgVars, indianExpenses, indianExpenseId,
                issued, last>>
StoreColl(c, arr) ==
    IF c = "salary" THEN salaries' = arr /\ UNCHANGED expenses
    ELSE expenses' = arr /\ UNCHANGED salaries

\* addSalary(data) / addExpense(data) is called
Call_add(c, data) ==
    LET rec == New(c, NextId(c), data, now)
        serial == SerialAdd(atomic, c, data, now) IN
    /\ MemCall /\ ConcurrentFrame
    /\ IF c = "salary" THEN salaryId' = salaryId + 1 /\ UNCHANGED expenseId
       ELSE expenseId' = expenseId + 1 /\ UNCHANGED salaryId
    /\ StoreColl(c, Append(Coll(c), rec))
    /\ frames' = Append(frames, [c |-> c, op |-> "add", id |-> 0, data |-> data,
                                  pc |-> "settled", index |-> 0, valid |-> TRUE,
                                  out |-> Record(rec), want |-> serial.out])
    /\ atomic' = serial.store

\* updateSalary(id, data) / updateExpense(id, data) (op = "update") or
\* deleteSalary(id) / deleteExpense(id) (op = "delete") is called
Call_write(c, op, id, data) ==
    LET index == FindIndex(Coll(c), id)
        serial == SerialWrite(atomic, c, op, id, data)
        frame == [c |-> c, op |-> op, id |-> id, data |-> data, pc |-> "settled",
                  index |-> index, valid |-> TRUE, out |-> Pending,
                  want |-> serial.out] IN
    /\ MemCall /\ ConcurrentFrame
    /\ UNCHANGED <<salaryId, expenseId>>
    /\ atomic' = serial.store
    /\ IF index = 0
       THEN /\ UNCHANGED <<salaries, expenses>>
            /\ frames' = Append(frames,
                   [frame EXCEPT !.out = IF op = "update" THEN Null ELSE Boolean(FALSE)])
       ELSE IF AwaitsBeforeWrite(op)
       THEN /\ UNCHANGED <<salaries, expenses>>
            /\ frames' = Append(frames, [frame EXCEPT !.pc = "write"])
       ELSE /\ StoreColl(c, Written(Coll(c), op, index, data))
            /\ frames' = Append(frames,
                   [frame EXCEPT !.out = WrittenOut(Coll(c), op, index, data)])

Call_update(c, id, data) == Call_write(c, "update", id, data)
Call_delete(c, id) == Call_write(c, "delete", id, EmptyObject)

\* the event loop runs the next microtask of frame i: the rest of a suspended
\* body, or the continuation of the caller on the settled promise; the queue
\* is first in, first out
Microtask(i) ==
    LET f == frames[i] IN
    /\ backend = "memory"
    /\ f.pc /= "done"
    /\ \A j \in 1..(i - 1) : frames[j].pc = "done"
    /\ UNCHANGED <<calls, salaryId, expenseId, atomic>>
    /\ ConcurrentFrame
    /\ IF f.pc = "write"
       THEN /\ StoreColl(f.c, Written(Coll(f.c), f.op, f.index, f.data))
            /\ frames' = [frames EXCEPT ![i] =
                   [f EXCEPT !.pc = "settled",
                             !.valid = (FindIndex(Coll(f.c), f.id) = f.index),
                             !.out = WrittenOut(Coll(f.c), f.op, f.index, f.data)]]
       ELSE /\ UNCHANGED <<salaries, expenses>>
            /\ frames' = [frames EXCEPT ![i].pc = "done"]

Categories == {"salary", "expense"}

NextConcurrent ==
    \/ \E c \in Categories : \E data \in AddInputs(c) : Call_add(c, data)
    \/ \E c \in Categories, id \in IdArgs :
           \E data \in UpdateInputs(c) : Call_update(c, id, data)
    \/ \E c \in Categories, id \in IdArgs : Call_delete(c, id)
    \/ \E i \in 1..Len(frames) : Microtask(i)

InitConcurrent ==
    /\ backend = "memory"
    /\ budget = MaxCalls
    /\ Constructed
SpecConcurrent == InitConcurrent /\ [][NextConcurrent]_vars

(***************************************************************************)
(* Properties                                                              *)
(***************************************************************************)
\* this step is a call of one of the methods `ops` of the ephemeral backend
MemStep(ops) == backend = "memory" /\ calls' = calls + 1 /\ last'.op \in ops
\* this step is a call of one of the methods `ops` of the persistent backend
PgStep(ops) == backend = "postgres" /\ calls' = calls + 1 /\ last'.op \in ops

\* arr holds a record of this id
HasId(arr, id) == \E i \in 1..Len(arr) : arr[i].id = Num(id)
\* recs ascend in createdAt
Ascending(recs) ==
    \A i, j \in 1..Len(recs) : i < j => recs[i].createdAt.n <= recs[j].createdAt.n

\* a call of `ops` returns a record whose id exceeds every id in `earlier`
FreshId(ops, earlier) ==
    MemStep(ops) =>
        /\ last'.kind = "record"
        /\ last'.recs[1].id.t = "number"
        /\ \A i \in earlier : last'.recs[1].id.n > i
\* C1: in the ephemeral backend every add/create returns a record whose id is a
\* number strictly greater than every id an earlier add/create of the same
\* category returned (so no id is reused after a delete), createSalary and
\* addSalary sharing one sequence.
C1_IdsStrictlyIncrease ==
    [][/\ FreshId({"createSalary", "addSalary"}, issued.salary)
       /\ FreshId({"createExpense", "addExpense"}, issued.expense)
       /\ FreshId({"createIndianExpense"}, issued.indian)]_vars

\* an add returned id 2 while the collection holds one record: id 1 was deleted
\* before and was not handed out again
C1_Witness ==
    /\ backend = "memory"
    /\ last.op = "addSalary"
    /\ last.recs[1].id = Num(2)
    /\ Len(salaries) = 1
    /\ issued.salary = {1, 2}

\* the number a numeric input stands for
IsNumeric(v) == v.t = "number" \/ (v.t = "string" /\ v.s /= <<>> /\ AllDigits(v.s))
NumericValue(v) == IF v.t = "number" THEN v.n ELSE Decimal(v.s)

\* an update of a stored id, seen on the collection before and after
PartialUpdate(ops, old, new) ==
    (MemStep(ops) /\ HasId(old, last'.id)) =>
        LET index == FindIndex(old, last'.id)
            data == last'.data
        IN  /\ last'.kind = "record"
            /\ Len(new) = Len(old)
            /\ last'.recs[1] = new[index]
            /\ DOMAIN new[index] = DOMAIN old[index]
            /\ \A k \in (DOMAIN old[index]) \ (DOMAIN data) : new[index][k] = old[index][k]
            /\ ("amount" \in DOMAIN data /\ IsNumeric(data.amount)) =>
                  new[index].amount = Num(NumericValue(data.amount))
\* C2: in the ephemeral backend an update of an existing id keeps every field
\* that the partial data does not carry (id and createdAt among them), and a
\* supplied numeric amount, also one given as a digit string, is stored as the
\* number it stands for.
C2_UpdateKeepsUnsuppliedFields ==
    [][/\ PartialUpdate({"updateSalary"}, salaries, salaries')
       /\ PartialUpdate({"updateExpense"}, expenses, expenses')]_vars

\* updateSalary(1, {amount: "12"}) on a salary added as {amount: 5, month: "J", ...}
C2_Witness ==
    /\ backend = "memory"
    /\ last.op = "updateSalary"
    /\ last.kind = "record"
    /\ last.data = [amount |-> Str(<<"1", "2">>)]
    /\ Len(salaries) = 1
    /\ salaries[1].amount = Num(12)
    /\ salaries[1].month = Str(<<"J">>)
    /\ salaries[1].notes = Str(<<"n">>)

\* an update without amount, seen on the rows before and after
AmountKept(ops, old, new) ==
    (PgStep(ops) /\ HasId(old, last'.id) /\ "amount" \notin DOMAIN last'.data) =>
        \A i \in 1..Len(old) :
            old[i].id = Num(last'.id) => new[i].amount = old[i].amount
\* C3: in the persistent backend an update of an existing id whose field subset
\* does not contain amount leaves the stored amount of that row unchanged.
C3_AmountKeptWithoutAmount ==
    [][/\ AmountKept({"updateSalary"}, pgSalaries, pgSalaries')
       /\ AmountKept({"updateExpense"}, pgExpenses, pgExpenses')]_vars

\* recs and coll hold the same records the same number of times
SameRecords(recs, coll) ==
    /\ Len(recs) = Len(coll)
    /\ \A r \in {recs[i] : i \in 1..Len(recs)} :
          Cardinality({i \in 1..Len(recs) : recs[i] = r})
            = Cardinality({i \in 1..Len(coll) : coll[i] = r})
\* the collection a list method reads
ListOf(op) ==
    IF backend = "memory"
    THEN CASE op = "getSalaries" -> salaries
           [] op = "getExpenses" -> expenses
           [] op = "getIndianExpenses" -> indianExpenses
    ELSE CASE op = "getSalaries" -> pgSalaries
           [] op = "getExpenses" -> pgExpenses
DeleteAbsent(ops, coll) ==
    (MemStep(ops) /\ ~HasId(coll, last'.id)) =>
        /\ last'.kind = "boolean"
        /\ last'.b = FALSE
        /\ UNCHANGED memVars
\* C5: in the ephemeral backend a delete of an id that is not in the
\* category's collection returns false and changes no collection and no counter.
C5_DeleteAbsentReturnsFalse ==
    [][/\ DeleteAbsent({"deleteSalary"}, salaries)
       /\ DeleteAbsent({"deleteExpense"}, expenses)
       /\ DeleteAbsent({"deleteIndianExpense"}, indianExpenses)]_vars

\* deleteSalary of an id that was handed out by an add and deleted before
C5_Witness ==
    /\ backend = "memory"
    /\ last.op = "deleteSalary"
    /\ last.kind = "boolean"
    /\ last.b = FALSE
    /\ last.id \in issued.salary
    /\ ~HasId(salaries, last.id)

\* a delete, seen on the collection before and after
DeleteExisting(op, old, new) ==
    MemStep({op}) =>
        /\ last'.kind = "boolean"
        /\ last'.b = HasId(old, last'.id)
        /\ last'.b => (Len(new) = Len(old) - 1 /\ ~HasId(new, last'.id))
        /\ (last.op = op /\ last.id = last'.id /\ last.b) => ~last'.b
\* C6: in the ephemeral backend delete(id) returns true exactly when a record
\* with that id was stored; after a true the collection is one record shorter
\* and holds no record with that id, and the same delete repeated returns false.
C6_DeleteReturnsWhetherStored ==
    [][/\ DeleteExisting("deleteSalary", salaries, salaries')
       /\ DeleteExisting("deleteExpense", expenses, expenses')
       /\ DeleteExisting("deleteIndianExpense", indianExpenses, indianExpenses')]_vars

\* a delete of the persistent backend, seen on the rows before and after
DeleteReportsRemoval(op, old, new) ==
    PgStep({op}) => (last'.kind = "boolean" /\ last'.b = (Len(new) < Len(old)))
\* C7: in the persistent backend deleteSalary and deleteExpense return true
\* when the statement removed a row and false when it removed none.
C7_DeleteReturnsRowAffected ==
    [][/\ DeleteReportsRemoval("deleteSalary", pgSalaries, pgSalaries')
       /\ DeleteReportsRemoval("deleteExpense", pgExpenses, pgExpenses')]_vars

\* an update of an id that coll does not hold
UpdateAbsent(ops, coll) ==
    (MemStep(ops) /\ ~HasId(coll, last'.id)) =>
        /\ last'.kind = "null"
        /\ UNCHANGED memVars
\* C8: in the ephemeral backend an update of an id that is not in the
\* category's collection returns null and changes no collection and no counter.
C8_UpdateAbsentReturnsNull ==
    [][/\ UpdateAbsent({"updateSalary"}, salaries)
       /\ UpdateAbsent({"updateExpense"}, expenses)]_vars

\* updateExpense(2, ...) with only expense 1 stored
C8_Witness ==
    /\ backend = "memory"
    /\ last.op = "updateExpense"
    /\ last.kind = "null"
    /\ last.id = 2
    /\ Len(expenses) = 1
    /\ expenses[1].id = Num(1)

\* an update of an id that no row carries
UpdateMissingRow(op, rows, err) ==
    (PgStep({op}) /\ ~HasId(rows, last'.id)) =>
        /\ last'.kind = "throw"
        /\ last'.err = err
        /\ UNCHANGED pgVars
\* C9: in the persistent backend an update of an id for which the store holds
\* no row ends in the thrown not-found error, and changes no row.
C9_UpdateMissingRowThrows ==
    [][/\ UpdateMissingRow("updateSalary", pgSalaries, "Salary with id ${id} not found")
       /\ UpdateMissingRow("updateExpense", pgExpenses, "Expense with id ${id} not found")]_vars

\* updateSalary({id: 2, ...}) threw with only the row of id 1 stored
C9_Witness ==
    /\ backend = "postgres"
    /\ last.op = "updateSalary"
    /\ last.kind = "throw"
    /\ last.id = 2
    /\ Len(pgSalaries) = 1
    /\ pgSalaries[1].id = Num(1)

\* an add/create whose data omits amount, date or the free-text field
DefaultsFilled(ops, text) ==
    MemStep(ops) =>
        LET data == last'.data
            rec == last'.recs[1]
        IN  /\ "amount" \notin DOMAIN data => rec.amount = Num(0)
            /\ "date" \notin DOMAIN data => rec.date = DateV(now)
            /\ text \notin DOMAIN data => rec[text] = Str(<<>>)
\* C10: in the ephemeral backend every add/create stores the default of each
\* omitted field: amount 0, date the current time, notes/description "".
C10_OmittedFieldsGetDefaults ==
    [][/\ DefaultsFilled({"createSalary", "addSalary"}, "notes")
       /\ DefaultsFilled({"createExpense", "addExpense", "createIndianExpense"},
                         "description")]_vars

\* an add of an expense returns a record whose createdAt is the supplied
\* effective date, or the current time when the data carries no date
CreatedAtFromDate(which, ops) ==
    (backend = which /\ calls' = calls + 1 /\ last'.op \in ops) =>
        /\ last'.kind = "record"
        /\ last'.recs[1].createdAt =
              IF Truthy(Get(last'.data, "date"))
              THEN NewDate(Get(last'.data, "date")) ELSE DateV(now)

\* C11: an expense added with an effective date gets that date as its
\* createdAt, and the current time when no date is supplied, in addExpense of
\* the persistent backend and in addExpense/createExpense of the ephemeral one.
C11_CreatedAtIsEffectiveDate ==
    [][/\ CreatedAtFromDate("postgres", {"addExpense"})
       /\ CreatedAtFromDate("memory", {"addExpense", "createExpense"})]_vars

\* C12: in the persistent backend getIndianExpenses, createIndianExpense and
\* deleteIndianExpense end in the not-implemented error on every call and
\* leave the store as it was.
C12_RegionalNotImplemented ==
    [][PgStep({"getIndianExpenses", "createIndianExpense", "deleteIndianExpense"}) =>
          /\ last'.kind = "throw"
          /\ last'.err = "Method not implemented."
          /\ UNCHANGED pgVars]_vars

\* createIndianExpense threw while the expenses relation holds a row
C12_Witness ==
    /\ backend = "postgres"
    /\ last.op = "createIndianExpense"
    /\ last.kind = "throw"
    /\ Len(pgExpenses) = 1
    /\ pgExpenseSeq = 2

\* no two records of arr carry the same id
UniqueIds(arr) == \A i, j \in 1..Len(arr) : arr[i].id = arr[j].id => i = j
\* an update leaves the id of the record it rewrites as it was
IdKept(op, old, new) ==
    (MemStep({op}) /\ last'.kind = "record") =>
        /\ Len(new) = Len(old)
        /\ \A i \in 1..Len(old) : new[i].id = old[i].id
        /\ last'.recs[1].id = Num(last'.id)
\* C13: in the ephemeral backend the ids of the records of a collection are
\* pairwise distinct in every state, and an update never changes the id of a
\* record, whatever fields its data carries.
C13_IdUniqueAndImmutable ==
    [][/\ UniqueIds(salaries') /\ UniqueIds(expenses') /\ UniqueIds(indianExpenses')
       /\ IdKept("updateSalary", salaries, salaries')
       /\ IdKept("updateExpense", expenses, expenses')]_vars

\* the calls that have returned, to the caller or not yet
Settled == {i \in 1..Len(frames) : frames[i].pc /= "write"}
\* C14: in the ephemeral backend, for calls issued without awaiting one
\* another, every result equals the result of the same call when the calls run
\* one by one in the order issued, and so do the collections and counters once
\* no call is suspended; every write goes to the index its record then has, and
\* no two adds of a category return the same id.
C14_ConcurrentCallsSerialise ==
    /\ \A i \in Settled : frames[i].out = frames[i].want /\ frames[i].valid
    /\ (Settled = 1..Len(frames)) =>
          /\ salaries = atomic.salary.arr /\ salaryId = atomic.salary.nextId
          /\ expenses = atomic.expense.arr /\ expenseId = atomic.expense.nextId
    /\ \A i, j \in Settled :
          (i /= j /\ frames[i].op = "add" /\ frames[j].op = "add"
                  /\ frames[i].c = frames[j].c) =>
              frames[i].out.recs[1].id /= frames[j].out.recs[1].id

\* updateSalary(1) and deleteSalary(1) were issued one after the other on a
\* stored record and neither caller has its result yet
C14_Witness ==
    /\ Len(frames) = 3
    /\ frames[2].op = "update" /\ frames[3].op = "delete"
    /\ frames[2].c = "salary" /\ frames[3].c = "salary"
    /\ frames[2].id = 1 /\ frames[3].id = 1
    /\ frames[2].pc = "settled" /\ frames[3].pc = "settled"
    /\ frames[2].out.kind = "record" /\ frames[3].out.b
    /\ salaries = <<>>

\* an update rewrites one record where it stands, a delete takes one record
\* out; every other record stays, in the same order
OthersKept(upd, del, old, new) ==
    /\ MemStep({upd}) =>
          /\ Len(new) = Len(old)
          /\ last'.kind = "null" => new = old
          /\ last'.kind = "record" =>
                \E k \in 1..Len(old) :
                    /\ old[k].id = Num(last'.id)
                    /\ new[k] = last'.recs[1]
                    /\ \A j \in 1..Len(old) : j /= k => new[j] = old[j]
    /\ MemStep({del}) =>
          /\ ~last'.b => new = old
          /\ last'.b =>
                \E k \in 1..Len(old) :
                    /\ old[k].id = Num(last'.id)
                    /\ Len(new) = Len(old) - 1
                    /\ \A j \in 1..Len(new) : new[j] = IF j < k THEN old[j] ELSE old[j + 1]
\* C15: in the ephemeral backend an update of the record with id i keeps the
\* collection's length and the record's position, a delete removes exactly one
\* record, which has id i, and both leave every other record of the category
\* unchanged and in the same relative order.
C15_OtherRecordsUntouched ==
    [][/\ OthersKept("updateSalary", "deleteSalary", salaries, salaries')
       /\ OthersKept("updateExpense", "deleteExpense", expenses, expenses')
       /\ OthersKept("none", "deleteIndianExpense", indianExpenses, indianExpenses')]_vars

\* deleteSalary(1) returned true with two salaries stored: the second remains
C15_Witness ==
    /\ backend = "memory"
    /\ last.op = "deleteSalary"
    /\ last.b = TRUE
    /\ last.id = 1
    /\ Len(salaries) = 1
    /\ salaries[1].id = Num(2)

\* a call of one of `ops` leaves `others`, the collections and counters of the
\* other categories, alone; an add among `adds` returns id 1 when no record was
\* added to its category before
OwnCategoryOnly(ops, adds, earlier, others) ==
    /\ MemStep(ops) => others' = others
    /\ (MemStep(adds) /\ earlier = {}) =>
          (last'.kind = "record" /\ last'.recs[1].id = Num(1))
\* C16: in the ephemeral backend every operation on one category leaves the
\* collections and the id counters of the other two categories unchanged, and
\* the first record added to a category gets id 1 whatever was added to the
\* other categories before.
C16_CategoriesIndependent ==
    [][/\ OwnCategoryOnly({"getSalaries", "createSalary", "addSalary",
                           "updateSalary", "deleteSalary"},
                          {"createSalary", "addSalary"}, issued.salary,
                          <<expenses, indianExpenses, expenseId, indianExpenseId>>)
       /\ OwnCategoryOnly({"getExpenses", "createExpense", "addExpense",
                           "updateExpense", "deleteExpense"},
                          {"createExpense", "addExpense"}, issued.expense,
                          <<salaries, indianExpenses, salaryId, indianExpenseId>>)
       /\ OwnCategoryOnly({"getIndianExpenses", "createIndianExpense",
                           "deleteIndianExpense"},
                          {"createIndianExpense"}, issued.indian,
                          <<salaries, expenses, salaryId, expenseId>>)]_vars

\* the first regional expense got id 1 after a salary and an expense were added
C16_Witness ==
    /\ backend = "memory"
    /\ last.op = "createIndianExpense"
    /\ last.recs[1].id = Num(1)
    /\ Len(salaries) = 1 /\ Len(expenses) = 1 /\ Len(indianExpenses) = 1
    /\ salaryId = 2 /\ expenseId = 2 /\ indianExpenseId = 2

\* the ids of recs increase strictly along the sequence
IdsIncrease(recs) ==
    \A i, j \in 1..Len(recs) : i < j => recs[i].id.n < recs[j].id.n
\* an add puts its record at the end of the collection; a list returns the
\* collection as it stands, made of records that were added, ids increasing
ListedAsAdded(list, adds, added, old, new) ==
    /\ MemStep(adds) => new = Append(old, last'.recs[1])
    /\ MemStep({list}) =>
          /\ last'.kind = "list"
          /\ last'.recs = old
          /\ \A i \in 1..Len(old) : old[i].id.t = "number" /\ old[i].id.n \in added
          /\ IdsIncrease(last'.recs)
\* C17: in the ephemeral backend the list of a category returns the records
\* added and not deleted, in the order in which they were added, and the ids
\* of the returned sequence increase strictly.
C17_ListInAdditionOrder ==
    [][/\ ListedAsAdded("getSalaries", {"createSalary", "addSalary"},
                        issued.salary, salaries, salaries')
       /\ ListedAsAdded("getExpenses", {"createExpense", "addExpense"},
                        issued.expense, expenses, expenses')
       /\ ListedAsAdded("getIndianExpenses", {"createIndianExpense"},
                        issued.indian, indianExpenses, indianExpenses')]_vars

\* createdAt of the rows after an updateExpense: the supplied date in the row
\* updated when the data carries a date, the value stored before otherwise
CreatedAtAfterUpdate(old, new) ==
    PgStep({"updateExpense"}) =>
        /\ Len(new) = Len(old)
        /\ \A i \in 1..Len(old) :
              new[i].createdAt =
                 IF old[i].id = Num(last'.id) /\ Truthy(Get(last'.data, "date"))
                 THEN NewDate(Get(last'.data, "date"))
                 ELSE old[i].createdAt
\* C18: in the persistent backend updateExpense sets the stored createdAt of
\* the record to the supplied date when its data carries a date, and leaves
\* the createdAt stored before in place when it carries none.
C18_CreatedAtFollowsSuppliedDate ==
    [][CreatedAtAfterUpdate(pgExpenses, pgExpenses')]_vars

\* an expense inserted at time 1 was updated with date 0: its createdAt is 0
C18_Witness ==
    /\ backend = "postgres"
    /\ last.op = "updateExpense" /\ last.kind = "record"
    /\ Get(last.data, "date") = DateV(0)
    /\ now = 1
    /\ Len(pgExpenses) = 1
    /\ pgExpenses[1].createdAt = DateV(0)

====
